---------------------------- MODULE Spec2Model ----------------------------
(***************************************************************************)
(* Model of pycodium's LSP client (src/pycodium/utils/lsp_client.py):      *)
(* class BasedPyrightLSPClient, a JSON-RPC-over-stdio client running as    *)
(* asyncio tasks on one event loop.  Bytes are one-character strings, a    *)
(* byte string is a sequence of them.  An action is the code a task runs   *)
(* between two points where it yields to the event loop.                   *)
(***************************************************************************)
EXTENDS Integers, Sequences, FiniteSets, TLC

(***************************************************************************)
(* Bytes and text                                                          *)
(***************************************************************************)
CR == "\r"
LF == "\n"
\* One byte that is not valid UTF-8 (0xFF).
BadByte == "xFF"

Digits == <<"0", "1", "2", "3", "4", "5", "6", "7", "8", "9">>
DigitSet == {Digits[i] : i \in 1..10}
DigitVal(c) == (CHOOSE i \in 1..10 : Digits[i] = c) - 1

\* Python slicing b[i:], b[:j], b[i:j]: a negative index counts from the end,
\* and every index is clamped to 0..len(b).
SliceIndex(i, n) == IF i < 0 THEN (IF n + i < 0 THEN 0 ELSE n + i) ELSE (IF i > n THEN n ELSE i)
Slice(b, i, j) ==
    LET lo == SliceIndex(i, Len(b))
        hi == SliceIndex(j, Len(b))
    IN IF lo >= hi THEN << >> ELSE SubSeq(b, lo + 1, hi)
SliceFrom(b, i) == IF SliceIndex(i, Len(b)) >= Len(b) THEN << >> ELSE SubSeq(b, SliceIndex(i, Len(b)) + 1, Len(b))
SliceTo(b, j) == IF SliceIndex(j, Len(b)) = 0 THEN << >> ELSE SubSeq(b, 1, SliceIndex(j, Len(b)))

\* b.startswith(p)
StartsWith(b, p) == Len(b) >= Len(p) /\ SubSeq(b, 1, Len(p)) = p

\* b.find(p): the 0-based index of the first occurrence of p, -1 if none.
RECURSIVE FindFrom(_, _, _)
FindFrom(b, p, i) ==
    IF i + Len(p) > Len(b) THEN -1
    ELSE IF b[i + 1] = p[1] /\ SubSeq(b, i + 1, i + Len(p)) = p THEN i
    ELSE FindFrom(b, p, i + 1)
Find(b, p) == FindFrom(b, p, 0)

\* bytes.decode("utf-8") succeeds (the text is then the same sequence).
DecodesUtf8(b) == \A i \in 1..Len(b) : b[i] # BadByte

\* str(n) for n >= 0
RECURSIVE IntToStr(_)
IntToStr(n) == IF n < 10 THEN <<Digits[n + 1]>> ELSE IntToStr(n \div 10) \o <<Digits[(n % 10) + 1]>>

\* str.strip() over the whitespace the model's alphabet has
IsSpace(c) == c \in {" ", "\t", CR, LF}
RECURSIVE LStrip(_)
LStrip(s) == IF s # << >> /\ IsSpace(s[1]) THEN LStrip(Tail(s)) ELSE s
RECURSIVE RStrip(_)
RStrip(s) == IF s # << >> /\ IsSpace(s[Len(s)]) THEN RStrip(SubSeq(s, 1, Len(s) - 1)) ELSE s
Strip(s) == RStrip(LStrip(s))

RECURSIVE DigitsToInt(_)
DigitsToInt(s) == IF s = << >> THEN 0 ELSE 10 * DigitsToInt(SubSeq(s, 1, Len(s) - 1)) + DigitVal(s[Len(s)])

\* int(s): surrounding whitespace and one sign are accepted, then decimal
\* digits; anything else raises ValueError.
ValueError == [err |-> "ValueError"]
PyInt(s) ==
    LET t == Strip(s)
        neg == t # << >> /\ t[1] = "-"
        u == IF t # << >> /\ t[1] \in {"-", "+"} THEN Tail(t) ELSE t
    IN IF u = << >> \/ \E i \in 1..Len(u) : u[i] \notin DigitSet
       THEN ValueError
       ELSE [err |-> "", val |-> IF neg THEN 0 - DigitsToInt(u) ELSE DigitsToInt(u)]

\* s.split(sep): the pieces of s between occurrences of sep
RECURSIVE Split(_, _)
Split(s, sep) ==
    LET i == Find(s, sep)
    IN IF i = -1 THEN <<s>> ELSE <<SliceTo(s, i)>> \o Split(SliceFrom(s, i + Len(sep)), sep)


(***************************************************************************)
(* JSON.  A Python value is a record [t, n, s, m]: None, an int, a str, the *)
(* empty list, or a dict kept as its sequence of <<key, value>> pairs in    *)
(* insertion order.  Dumps and Loads cover the JSON the model's messages    *)
(* use: flat objects whose values are null, non-negative integers, strings  *)
(* without escapes or commas, [] and {}.                                    *)
(***************************************************************************)
JNull == [t |-> "none", n |-> 0, s |-> << >>, m |-> << >>]
JInt(n) == [t |-> "int", n |-> n, s |-> << >>, m |-> << >>]
JStr(s) == [t |-> "str", n |-> 0, s |-> s, m |-> << >>]
JList == [t |-> "list", n |-> 0, s |-> << >>, m |-> << >>]
JDict(m) == [t |-> "dict", n |-> 0, s |-> << >>, m |-> m]

\* key in d, d[key] and d.get(key) for a dict d
Has(d, k) == \E i \in 1..Len(d.m) : d.m[i][1] = k
Get(d, k) == IF Has(d, k) THEN d.m[CHOOSE i \in 1..Len(d.m) : d.m[i][1] = k][2] ELSE JNull

\* d[k] = v on the pair sequence m: an existing key keeps its position
SetItem(m, k, v) ==
    IF \E i \in 1..Len(m) : m[i][1] = k
    THEN [i \in 1..Len(m) |-> IF m[i][1] = k THEN <<k, v>> ELSE m[i]]
    ELSE Append(m, <<k, v>>)

Quote == "\""
Quoted(s) == <<Quote>> \o s \o <<Quote>>

RECURSIVE Dumps(_)
RECURSIVE DumpsMembers(_)
DumpsMembers(m) ==
    IF m = << >> THEN << >>
    ELSE Quoted(m[1][1]) \o <<":">> \o Dumps(m[1][2])
         \o (IF Len(m) > 1 THEN <<",">> \o DumpsMembers(Tail(m)) ELSE << >>)
\* json.dumps(v, separators=(",", ":"))
Dumps(v) ==
    CASE v.t = "none" -> <<"n", "u", "l", "l">>
      [] v.t = "int" -> IntToStr(v.n)
      [] v.t = "str" -> Quoted(v.s)
      [] v.t = "list" -> <<"[", "]">>
      [] v.t = "dict" -> <<"{">> \o DumpsMembers(v.m) \o <<"}">>

JSONDecodeError == [err |-> "JSONDecodeError"]
Parsed(v) == [err |-> "", val |-> v]

IsStrBody(s) == \A i \in 1..Len(s) : s[i] \notin {Quote, "\\", CR, LF, "\t"}

\* A value that is not a non-empty object.
LoadsScalar(t) ==
    CASE t = <<"n", "u", "l", "l">> -> Parsed(JNull)
      [] t # << >> /\ (\A i \in 1..Len(t) : t[i] \in DigitSet) /\ (Len(t) = 1 \/ t[1] # "0")
           -> Parsed(JInt(DigitsToInt(t)))
      [] Len(t) >= 2 /\ t[1] = Quote /\ t[Len(t)] = Quote /\ IsStrBody(SubSeq(t, 2, Len(t) - 1))
           -> Parsed(JStr(SubSeq(t, 2, Len(t) - 1)))
      [] t = <<"[", "]">> -> Parsed(JList)
      [] t = <<"{", "}">> -> Parsed(JDict(<< >>))
      [] OTHER -> JSONDecodeError

\* One "key":value member of an object.
LoadsMember(t) ==
    LET close == Find(SliceFrom(t, 1), <<Quote>>)
        key == Slice(t, 1, 1 + close)
        rest == SliceFrom(t, 2 + close)
        val == LoadsScalar(SliceFrom(rest, 1))
    IN IF t = << >> \/ t[1] # Quote \/ close = -1 \/ ~IsStrBody(key)
          \/ rest = << >> \/ rest[1] # ":" \/ val.err # ""
       THEN JSONDecodeError
       ELSE Parsed(<<key, val.val>>)

RECURSIVE LoadsMembers(_, _)
LoadsMembers(parts, acc) ==
    IF parts = << >> THEN Parsed(JDict(acc))
    ELSE LET mem == LoadsMember(parts[1])
         IN IF mem.err # "" THEN JSONDecodeError
            ELSE LoadsMembers(Tail(parts), SetItem(acc, mem.val[1], mem.val[2]))

\* json.loads(text)
Loads(t) ==
    IF Len(t) > 2 /\ t[1] = "{" /\ t[Len(t)] = "}"
    THEN LoadsMembers(Split(SubSeq(t, 2, Len(t) - 1), <<",">>), << >>)
    ELSE LoadsScalar(t)

(***************************************************************************)
(* Content-Length framing, as _write_message builds it                     *)
(***************************************************************************)
ContentLengthPrefix == <<"C", "o", "n", "t", "e", "n", "t", "-", "L", "e", "n", "g", "t", "h", ":">>
HeaderEnd == <<CR, LF, CR, LF>>
\* For comparison with FrameBytes: a header that gives the length in
\* characters of the body less its last byte.
FrameBytesShort(content) ==
    ContentLengthPrefix \o <<" ">> \o IntToStr(Len(content) - 1) \o HeaderEnd \o content

\* header + content_bytes for a body of bytes
FrameBytes(content) == ContentLengthPrefix \o <<" ">> \o IntToStr(Len(content)) \o HeaderEnd \o content
\* full_message of _write_message(message)
FullMessage(message) == FrameBytes(Dumps(message))


(***************************************************************************)
(* Message keys and method names                                           *)
(***************************************************************************)
KId == <<"i", "d">>
KResult == <<"r", "e", "s", "u", "l", "t">>
KError == <<"e", "r", "r", "o", "r">>
KMethod == <<"m", "e", "t", "h", "o", "d">>
KJsonrpc == <<"j", "s", "o", "n", "r", "p", "c">>
KParams == <<"p", "a", "r", "a", "m", "s">>
V20 == <<"2", ".", "0">>
MInitialize == <<"i", "n", "i", "t", "i", "a", "l", "i", "z", "e">>
MInitialized == <<"i", "n", "i", "t", "i", "a", "l", "i", "z", "e", "d">>
MShutdown == <<"s", "h", "u", "t", "d", "o", "w", "n">>
MExit == <<"e", "x", "i", "t">>
MHover == <<"t", "e", "x", "t", "D", "o", "c", "u", "m", "e", "n", "t", "/", "h", "o", "v", "e", "r">>
MCompletion ==
    <<"t", "e", "x", "t", "D", "o", "c", "u", "m", "e", "n", "t", "/", "c", "o", "m", "p", "l",
      "e", "t", "i", "o", "n">>
MDefinition ==
    <<"t", "e", "x", "t", "D", "o", "c", "u", "m", "e", "n", "t", "/", "d", "e", "f", "i", "n",
      "i", "t", "i", "o", "n">>
MDeclaration ==
    <<"t", "e", "x", "t", "D", "o", "c", "u", "m", "e", "n", "t", "/", "d", "e", "c", "l", "a",
      "r", "a", "t", "i", "o", "n">>
MethodName == [initialize |-> MInitialize, initialized |-> MInitialized, shutdown |-> MShutdown,
               exit |-> MExit, hover |-> MHover, completion |-> MCompletion,
               definition |-> MDefinition, declaration |-> MDeclaration]

(***************************************************************************)
(* Futures.  A future is [state, val]; every _send_request call creates    *)
(* one, and futures are numbered by the order of the calls that made them. *)
(***************************************************************************)
NewFuture == [state |-> "pending", val |-> JNull]
FutureDone(f) == f.state # "pending"

(***************************************************************************)
(* _process_message.  r is [pending, fut, exc]: pending_requests as a      *)
(* function from request id to the future's number, the futures, and the   *)
(* exception raised ("" for none).                                         *)
(***************************************************************************)
\* future.set_result(v) / future.set_exception(e) on future number k
SetFuture(r, k, state, v) ==
    IF FutureDone(r.fut[k])
    THEN [r EXCEPT !.exc = "InvalidStateError"]
    ELSE [r EXCEPT !.fut[k] = [state |-> state, val |-> v]]

\* request_id in self.pending_requests, for a request_id taken from JSON
InPending(r, rid) ==
    rid.t = "int" /\ rid.n \in DOMAIN r.pending

\* Two dispatchers for comparison with ProcessMessage.  The first gives a
\* response whose id is not pending to the oldest pending request; the second
\* does that with a message that has a method and no id.
Oldest(pending) == CHOOSE k \in DOMAIN pending : \A j \in DOMAIN pending : k <= j

ProcessMessageAnyId(r, message) ==
    CASE message.t \in {"int", "none"} -> [r EXCEPT !.exc = "TypeError"]
      [] message.t = "list" -> [r EXCEPT !.exc = "AttributeError"]
      [] message.t = "str" ->
           [r EXCEPT !.exc = IF Find(message.s, KId) # -1 THEN "TypeError" ELSE "AttributeError"]
      [] OTHER ->
           IF Has(message, KId)
           THEN LET request_id == Get(message, KId)
                IN IF request_id.t \in {"list", "dict"}
                   THEN [r EXCEPT !.exc = "TypeError"]
                   ELSE IF InPending(r, request_id)
                        THEN IF Has(message, KError)
                             THEN SetFuture(r, r.pending[request_id.n], "exception", Get(message, KError))
                             ELSE SetFuture(r, r.pending[request_id.n], "result", Get(message, KResult))
                        ELSE IF DOMAIN r.pending # {}
                             THEN SetFuture(r, r.pending[Oldest(r.pending)], "result", Get(message, KResult))
                             ELSE r
           ELSE r

ProcessMessageByMethod(r, message) ==
    CASE message.t \in {"int", "none"} -> [r EXCEPT !.exc = "TypeError"]
      [] message.t = "list" -> [r EXCEPT !.exc = "AttributeError"]
      [] message.t = "str" ->
           [r EXCEPT !.exc = IF Find(message.s, KId) # -1 THEN "TypeError" ELSE "AttributeError"]
      [] OTHER ->
           IF Has(message, KId)
           THEN LET request_id == Get(message, KId)
                IN IF request_id.t \in {"list", "dict"}
                   THEN [r EXCEPT !.exc = "TypeError"]
                   ELSE IF InPending(r, request_id)
                        THEN IF Has(message, KError)
                             THEN SetFuture(r, r.pending[request_id.n], "exception", Get(message, KError))
                             ELSE SetFuture(r, r.pending[request_id.n], "result", Get(message, KResult))
                        ELSE r
           ELSE IF Has(message, KMethod) /\ DOMAIN r.pending # {}
                THEN SetFuture(r, r.pending[Oldest(r.pending)], "result", JNull)
                ELSE r

ProcessMessage(r, message) ==
    CASE message.t \in {"int", "none"} -> [r EXCEPT !.exc = "TypeError"]
      [] message.t = "list" -> [r EXCEPT !.exc = "AttributeError"]
      [] message.t = "str" ->
           [r EXCEPT !.exc = IF Find(message.s, KId) # -1 THEN "TypeError" ELSE "AttributeError"]
      [] OTHER ->
           IF Has(message, KId)
           THEN LET request_id == Get(message, KId)
                IN IF request_id.t \in {"list", "dict"}
                   THEN [r EXCEPT !.exc = "TypeError"]
                   ELSE IF InPending(r, request_id)
                        THEN IF Has(message, KError)
                             THEN SetFuture(r, r.pending[request_id.n], "exception", Get(message, KError))
                             ELSE SetFuture(r, r.pending[request_id.n], "result", Get(message, KResult))
                        ELSE r
           ELSE r

(***************************************************************************)
(* The inner loop of _handle_responses: everything the read loop does with *)
(* the buffer between two reads.  rs is [buffer, pending, fut, log, exc];  *)
(* log gets one entry per message handed to _process_message.              *)
(***************************************************************************)
\* The Content-Length of a decoded header block: [found, err, val].
RECURSIVE ContentLengthOf(_)
ContentLengthOf(lines) ==
    IF lines = << >> THEN [found |-> FALSE, err |-> "", val |-> 0]
    ELSE IF StartsWith(lines[1], ContentLengthPrefix)
         THEN LET n == PyInt(SliceFrom(lines[1], Find(lines[1], <<":">>) + 1))
              IN IF n.err # "" THEN [found |-> TRUE, err |-> n.err, val |-> 0]
                 ELSE [found |-> TRUE, err |-> "", val |-> n.val]
         ELSE ContentLengthOf(Tail(lines))

\* The log entry of one call of _process_message: the message, pending_requests
\* and the futures' states before and after it, and what it raised.
States(fut) == [k \in DOMAIN fut |-> fut[k].state]
Dispatch(rs, message) ==
    LET r == ProcessMessage([pending |-> rs.pending, fut |-> rs.fut, exc |-> ""], message)
    IN [rs EXCEPT !.pending = r.pending, !.fut = r.fut, !.exc = r.exc,
                  !.log = Append(rs.log, [msg |-> message, pending |-> rs.pending,
                                          before |-> States(rs.fut), after |-> States(r.fut),
                                          pendingAfter |-> r.pending, raised |-> r.exc])]

RECURSIVE InnerLoop(_)
InnerLoop(rs) ==
    LET header_end == Find(rs.buffer, HeaderEnd)
        header == SliceTo(rs.buffer, header_end)
        content_length == ContentLengthOf(Split(header, <<CR, LF>>))
        message_start == header_end + 4
        message_bytes == Slice(rs.buffer, message_start, message_start + content_length.val)
        rest == SliceFrom(rs.buffer, message_start + content_length.val)
        message == Loads(message_bytes)
    IN IF header_end = -1 THEN rs
       ELSE IF ~DecodesUtf8(header) THEN [rs EXCEPT !.exc = "UnicodeDecodeError"]
       ELSE IF content_length.err # "" THEN [rs EXCEPT !.exc = content_length.err]
       ELSE IF ~content_length.found
            THEN InnerLoop([rs EXCEPT !.buffer = SliceFrom(rs.buffer, header_end + 4)])
       ELSE IF Len(rs.buffer) < message_start + content_length.val THEN rs
       ELSE IF ~DecodesUtf8(message_bytes) THEN [rs EXCEPT !.buffer = rest, !.exc = "UnicodeDecodeError"]
       ELSE IF message.err # ""
            THEN IF rest = rs.buffer
                 THEN [rs EXCEPT !.exc = "NeverYields"]
                 ELSE InnerLoop([rs EXCEPT !.buffer = rest])
       ELSE LET after == Dispatch([rs EXCEPT !.buffer = rest], message.val)
            IN IF after.exc # "" THEN after ELSE InnerLoop(after)


(***************************************************************************)
(* Bounds                                                                  *)
(***************************************************************************)
\* _send_request calls that get past the "Server not started" guard
MaxRequests == 2
\* copies of one frame the child writes between two reads
MaxRepeat == 2

(***************************************************************************)
(* State                                                                   *)
(***************************************************************************)
Callers == {"c1"}
Tasks == {"start", "stop"} \cup Callers

VARIABLES
    process,            \* self.process: "None" or "Process"
    running,            \* the child process is alive (its returncode is None)
    request_id,         \* self.request_id
    pending_requests,   \* self.pending_requests: request id -> future number
    futures,            \* the futures made so far, in the order of their calls
    pc,                 \* where each task is
    call,               \* each task's locals in _send_request: request_id, future
    outcome,            \* what each task's last operation returned or raised
    stdin,              \* the messages written to the child's stdin, in order
    stdout,             \* bytes the child wrote that the client has not read yet
    buffer,             \* buffer of _handle_responses
    reader,             \* the read loop task: "none", "reading", "done" or an exception
    signals,            \* signals sent to the child
    allocated,          \* history: the request ids in allocation order
    log,                \* history: the messages the last pass of the read loop
                        \* handed to _process_message
    sent,               \* history: the frames the child had written to stdout
                        \* before the first step (SpecFramer)
    orphans,            \* the children and read loops of earlier start_server
                        \* calls: one [running, reading] per call
    tabs,               \* EditorState.tabs: [id, path, on_not_active] per tab
    active_tab_id,      \* EditorState.active_tab_id: an id or "None"
    active_tab_history, \* EditorState.active_tab_history
    closed_tab,         \* the tab object the last close_tab took off the list,
                        \* as a holder of a reference to it sees it
    lsp_client,         \* the module-level lsp_client: 0 for None, or the
                        \* number of a BasedPyrightLSPClient instance
    instances,          \* the BasedPyrightLSPClient instances made for the
                        \* module-level name, in the order of their making
    users               \* the tasks that call get_lsp_client or
                        \* _restart_lsp_with_interpreter: position and locals

\* The variables of the editor state; the LSP client leaves them alone.
editor == <<tabs, active_tab_id, active_tab_history, closed_tab>>

\* The module-level client of lsp_client.py and the tasks that use it.
shared == <<lsp_client, instances, users>>

\* The variables of the LSP client; the editor state leaves them alone.
client == <<process, running, request_id, pending_requests, futures, pc, call, outcome,
            stdin, stdout, buffer, reader, signals, allocated, log, sent, orphans>>

vars == <<process, running, request_id, pending_requests, futures, pc, call, outcome,
          stdin, stdout, buffer, reader, signals, allocated, log, sent, orphans,
          tabs, active_tab_id, active_tab_history, closed_tab,
          lsp_client, instances, users>>

\* EditorState() as constructed: no tab, no active tab, no history.
NoTab == [id |-> "None", path |-> "", on_not_active |-> FALSE]
InitEditor ==
    /\ tabs = << >>
    /\ active_tab_id = "None"
    /\ active_tab_history = << >>
    /\ closed_tab = NoTab

\* lsp_client.py as imported: lsp_client is None and nobody has called yet.
Getters == {"g1", "g2"}
Restarters == {"r1"}
Users == Getters \cup Restarters
NoUser == [pc |-> "idle", inst |-> 0, got |-> 0]
InitShared ==
    /\ lsp_client = 0
    /\ instances = << >>
    /\ users = [u \in Users |-> NoUser]

NoCall == [id |-> 0, fut |-> 0]
NoOutcome == [kind |-> "none", val |-> JNull]
Raised(kind) == [kind |-> kind, val |-> JNull]

Init ==
    /\ process = "None"
    /\ running = FALSE
    /\ request_id = 0
    /\ pending_requests = << >>
    /\ futures = << >>
    /\ pc = [t \in Tasks |-> "idle"]
    /\ call = [t \in Tasks |-> NoCall]
    /\ outcome = [t \in Tasks |-> NoOutcome]
    /\ stdin = << >>
    /\ stdout = << >>
    /\ buffer = << >>
    /\ reader = "none"
    /\ signals = << >>
    /\ allocated = << >>
    /\ log = << >>
    /\ sent = << >>
    /\ orphans = << >>
    /\ InitEditor
    /\ InitShared

(***************************************************************************)
(* _send_request and _send_notification                                    *)
(***************************************************************************)
\* A counter that stops at 1, for comparison with NextRequestId.
NextRequestIdStuck(n) == IF n < 1 THEN n + 1 ELSE n

\* self.request_id += 1
NextRequestId(n) == n + 1

\* d[k] = v and d.pop(k, None) on pending_requests
DictSet(d, k, v) == [i \in DOMAIN d \cup {k} |-> IF i = k THEN v ELSE d[i]]
DictPop(d, k) == [i \in DOMAIN d \ {k} |-> d[i]]

\* What _send_request and _send_notification pass to _write_message, as
\* stdin keeps it: id 0 stands for a message without an id.
RequestMessage(id, method, hasParams) == [id |-> id, method |-> method, params |-> hasParams]
NotificationMessage(method, hasParams) == [id |-> 0, method |-> method, params |-> hasParams]

\* The dict "message" of those two; the content of params is left out.
MessageDict(w) ==
    JDict(<< <<KJsonrpc, JStr(V20)>> >>
          \o (IF w.id # 0 THEN << <<KId, JInt(w.id)>> >> ELSE << >>)
          \o << <<KMethod, JStr(MethodName[w.method])>> >>
          \o (IF w.params THEN << <<KParams, JDict(<< >>)>> >> ELSE << >>))

\* _write_message: stdin.write(full_message) hands over one whole frame;
\* drain() raises when the pipe to the child is broken.
WriteFails == ~running
Written(message) == IF WriteFails THEN stdin ELSE Append(stdin, message)

\* _send_request from the guard to its first await, for task t with the
\* process set: the id, the future, the registration and the write.
SendRequest(t, method, hasParams) ==
    LET id == NextRequestId(request_id)
        k == Len(futures) + 1
    IN /\ request_id' = id
       /\ allocated' = Append(allocated, id)
       /\ futures' = Append(futures, NewFuture)
       /\ pending_requests' = DictSet(pending_requests, id, k)
       /\ call' = [call EXCEPT ![t] = [id |-> id, fut |-> k]]
       /\ stdin' = Written(RequestMessage(id, method, hasParams))

\* For comparison with Awaited: the future's exception is taken as no result.
AwaitedSwallows(f) ==
    CASE f.state = "result" -> [kind |-> "result", val |-> f.val]
      [] f.state = "exception" -> [kind |-> "result", val |-> JNull]
      [] f.state = "cancelled" -> Raised("TimeoutError")

\* What "await asyncio.wait_for(future, 30.0)" gives for a done future.
Awaited(f) ==
    CASE f.state = "result" -> [kind |-> "result", val |-> f.val]
      [] f.state = "exception" -> [kind |-> "LSPError", val |-> f.val]
      [] f.state = "cancelled" -> Raised("TimeoutError")

\* The 30 s of wait_for elapse for task t: wait_for cancels the future; the
\* task itself runs again (its finally clause) in a later step.
Timeout(t) ==
    /\ pc[t] = "wait"
    /\ ~FutureDone(futures[call[t].fut])
    /\ futures' = [futures EXCEPT ![call[t].fut].state = "cancelled"]
    /\ UNCHANGED <<shared, editor, sent, orphans, process, running, request_id, pending_requests, pc, call, outcome,
                   stdin, stdout, buffer, reader, signals, allocated, log>>

\* finally: self.pending_requests.pop(request_id, None)
Finally(t) == DictPop(pending_requests, call[t].id)

(***************************************************************************)
(* A request-style operation (get_hover_info, ...) called by task c        *)
(***************************************************************************)
CallRequest(c) ==
    /\ pc[c] = "idle"
    /\ process = "None" \/ request_id < MaxRequests
    /\ IF process = "None"
       THEN /\ outcome' = [outcome EXCEPT ![c] = Raised("RuntimeError")]
            /\ UNCHANGED <<request_id, allocated, futures, pending_requests, call, stdin, pc>>
       ELSE /\ SendRequest(c, "hover", TRUE)
            /\ IF WriteFails
               THEN /\ outcome' = [outcome EXCEPT ![c] = Raised("ConnectionResetError")]
                    /\ pc' = pc
               ELSE /\ outcome' = [outcome EXCEPT ![c] = NoOutcome]
                    /\ pc' = [pc EXCEPT ![c] = "wait"]
    /\ UNCHANGED <<shared, editor, sent, orphans, process, running, stdout, buffer, reader, signals, log>>

ReturnRequest(c) ==
    /\ c \in Callers
    /\ pc[c] = "wait"
    /\ FutureDone(futures[call[c].fut])
    /\ pending_requests' = Finally(c)
    /\ outcome' = [outcome EXCEPT ![c] = Awaited(futures[call[c].fut])]
    /\ pc' = [pc EXCEPT ![c] = "idle"]
    /\ UNCHANGED <<shared, editor, sent, orphans, process, running, request_id, futures, call, stdin, stdout, buffer,
                   reader, signals, allocated, log>>


(***************************************************************************)
(* start_server                                                            *)
(***************************************************************************)
\* For comparison with StartServerSpawnFails: the handle is assigned although
\* the spawn failed.
StartServerSpawnFailsAssigned ==
    /\ pc["start"] = "idle"
    /\ pc' = [pc EXCEPT !["start"] = "failed"]
    /\ outcome' = [outcome EXCEPT !["start"] = Raised("OSError")]
    /\ process' = "Process"
    /\ UNCHANGED <<shared, editor, sent, orphans, running, request_id, pending_requests, futures, call, stdin,
                   stdout, buffer, reader, signals, allocated, log>>

\* create_subprocess_exec fails: the exception is logged and raised again.
StartServerSpawnFails ==
    /\ pc["start"] = "idle"
    /\ pc' = [pc EXCEPT !["start"] = "failed"]
    /\ outcome' = [outcome EXCEPT !["start"] = Raised("OSError")]
    /\ UNCHANGED <<shared, editor, sent, orphans, process, running, request_id, pending_requests, futures, call, stdin,
                   stdout, buffer, reader, signals, allocated, log>>

\* The child is spawned, the read loop task is created, and _initialize
\* runs to the await inside _send_request("initialize", params).
StartServer ==
    /\ pc["start"] = "idle"
    /\ request_id < MaxRequests
    /\ process' = "Process"
    /\ running' = TRUE
    /\ reader' = "reading"
    /\ buffer' = << >>
    /\ stdout' = << >>
    /\ LET id == NextRequestId(request_id)
           k == Len(futures) + 1
       IN /\ request_id' = id
          /\ allocated' = Append(allocated, id)
          /\ futures' = Append(futures, NewFuture)
          /\ pending_requests' = DictSet(pending_requests, id, k)
          /\ call' = [call EXCEPT !["start"] = [id |-> id, fut |-> k]]
          /\ stdin' = Append(stdin, RequestMessage(id, "initialize", TRUE))
    /\ pc' = [pc EXCEPT !["start"] = "wait"]
    /\ UNCHANGED <<shared, editor, sent, orphans, outcome, signals, log>>

\* For comparison with ReturnInitialize: _initialize writes "initialized"
\* without awaiting the response to "initialize".
ReturnInitializeEarly ==
    /\ pc["start"] = "wait"
    /\ running
    /\ pending_requests' = Finally("start")
    /\ outcome' = [outcome EXCEPT !["start"] = [kind |-> "result", val |-> JNull]]
    /\ pc' = [pc EXCEPT !["start"] = "ready"]
    /\ stdin' = Append(stdin, NotificationMessage("initialized", TRUE))
    /\ UNCHANGED <<shared, editor, sent, orphans, process, running, request_id, futures, call, stdout, buffer,
                   reader, signals, allocated, log>>

\* _send_request("initialize") returns or raises in _initialize; on a result
\* _send_notification("initialized", {}) follows and start_server returns.
ReturnInitialize ==
    /\ pc["start"] = "wait"
    /\ FutureDone(futures[call["start"].fut])
    /\ pending_requests' = Finally("start")
    /\ LET got == Awaited(futures[call["start"].fut])
       IN IF got.kind # "result"
          THEN /\ outcome' = [outcome EXCEPT !["start"] = Raised(got.kind)]
               /\ pc' = [pc EXCEPT !["start"] = "failed"]
               /\ stdin' = stdin
          ELSE IF process = "None"
          THEN /\ outcome' = [outcome EXCEPT !["start"] = Raised("RuntimeError")]
               /\ pc' = [pc EXCEPT !["start"] = "failed"]
               /\ stdin' = stdin
          ELSE IF WriteFails
          THEN /\ outcome' = [outcome EXCEPT !["start"] = Raised("ConnectionResetError")]
               /\ pc' = [pc EXCEPT !["start"] = "failed"]
               /\ stdin' = stdin
          ELSE /\ outcome' = [outcome EXCEPT !["start"] = got]
               /\ pc' = [pc EXCEPT !["start"] = "ready"]
               /\ stdin' = Append(stdin, NotificationMessage("initialized", TRUE))
    /\ UNCHANGED <<shared, editor, sent, orphans, process, running, request_id, futures, call, stdout, buffer, reader,
                   signals, allocated, log>>

\* start_server called again on the same instance, while no stop_server call
\* is running: nothing in start_server looks at self.process before line 25
\* overwrites it, and nothing ends the read loop task made by the earlier
\* call.  The earlier child and read loop go on as orphans; the model follows
\* them only while the earlier child writes nothing more.
RestartServer ==
    /\ pc["start"] \in {"ready", "failed"}
    /\ pc["stop"] \in {"idle", "stopped"}
    /\ request_id < MaxRequests
    /\ orphans' = IF running \/ reader = "reading"
                  THEN Append(orphans, [running |-> running, reading |-> reader = "reading"])
                  ELSE orphans
    /\ process' = "Process"
    /\ running' = TRUE
    /\ reader' = "reading"
    /\ buffer' = << >>
    /\ stdout' = << >>
    /\ LET id == NextRequestId(request_id)
           k == Len(futures) + 1
       IN /\ request_id' = id
          /\ allocated' = Append(allocated, id)
          /\ futures' = Append(futures, NewFuture)
          /\ pending_requests' = DictSet(pending_requests, id, k)
          /\ call' = [call EXCEPT !["start"] = [id |-> id, fut |-> k]]
          /\ stdin' = Append(stdin, RequestMessage(id, "initialize", TRUE))
    /\ pc' = [pc EXCEPT !["start"] = "wait"]
    /\ UNCHANGED <<shared, editor, sent, outcome, signals, log>>

\* An orphaned child exits; an orphaned read loop reads the end of its file.
OrphanExits(i) ==
    /\ i \in 1..Len(orphans)
    /\ orphans[i].running
    /\ orphans' = [orphans EXCEPT ![i].running = FALSE]
    /\ UNCHANGED <<shared, editor, process, running, request_id, pending_requests, futures, pc, call, outcome,
                   stdin, stdout, buffer, reader, signals, allocated, log, sent>>

OrphanEOF(i) ==
    /\ i \in 1..Len(orphans)
    /\ ~orphans[i].running
    /\ orphans[i].reading
    /\ orphans' = [orphans EXCEPT ![i].reading = FALSE]
    /\ UNCHANGED <<shared, editor, process, running, request_id, pending_requests, futures, pc, call, outcome,
                   stdin, stdout, buffer, reader, signals, allocated, log, sent>>

(***************************************************************************)
(* stop_server                                                             *)
(***************************************************************************)
\* For comparison with StopFinally: stop_server ends and leaves self.process.
StopFinallyKeeps(kind) ==
    /\ process' = process
    /\ pc' = [pc EXCEPT !["stop"] = "stopped"]
    /\ outcome' = [outcome EXCEPT !["stop"] = Raised(kind)]

\* finally: self.process = None, with stop_server returning or raising
StopFinally(kind) ==
    /\ process' = "None"
    /\ pc' = [pc EXCEPT !["stop"] = "stopped"]
    /\ outcome' = [outcome EXCEPT !["stop"] = Raised(kind)]

\* except asyncio.TimeoutError: self.process.terminate(); await self.process.wait().
\* terminate() on a child that has exited does nothing or, once its transport
\* is closed, raises ProcessLookupError.
StopTerminate ==
    IF running
    THEN /\ signals' = Append(signals, "SIGTERM")
         /\ pc' = [pc EXCEPT !["stop"] = "terminated"]
         /\ UNCHANGED <<process, outcome>>
    ELSE \/ /\ pc' = [pc EXCEPT !["stop"] = "terminated"]
            /\ UNCHANGED <<process, outcome, signals>>
         \/ /\ StopFinally("ProcessLookupError")
            /\ UNCHANGED signals

\* except Exception: kill() and wait() if the child has not exited
StopKill ==
    IF running
    THEN /\ signals' = Append(signals, "SIGKILL")
         /\ pc' = [pc EXCEPT !["stop"] = "killed"]
         /\ UNCHANGED <<process, outcome>>
    ELSE /\ StopFinally("none")
         /\ UNCHANGED signals

\* stop_server from its start to the await inside _send_request("shutdown", None)
StopServer ==
    /\ pc["stop"] \in {"idle", "stopped"}
    /\ process = "None" \/ request_id < MaxRequests
    /\ IF process = "None"
       THEN /\ pc' = [pc EXCEPT !["stop"] = "stopped"]
            /\ outcome' = [outcome EXCEPT !["stop"] = Raised("none")]
            /\ UNCHANGED <<process, request_id, allocated, futures, pending_requests, call,
                           stdin, signals>>
       ELSE /\ SendRequest("stop", "shutdown", FALSE)
            /\ IF WriteFails
               THEN StopKill
               ELSE /\ pc' = [pc EXCEPT !["stop"] = "wait"]
                    /\ UNCHANGED <<process, outcome, signals>>
    /\ UNCHANGED <<shared, editor, sent, orphans, running, stdout, buffer, reader, log>>

\* _send_request("shutdown") returns or raises; on a result the exit
\* notification is written and stop_server waits for the child, 5 s at most.
ReturnShutdown ==
    /\ pc["stop"] = "wait"
    /\ FutureDone(futures[call["stop"].fut])
    /\ pending_requests' = Finally("stop")
    /\ LET got == Awaited(futures[call["stop"].fut])
       IN CASE got.kind = "TimeoutError" -> StopTerminate /\ stdin' = stdin
            [] got.kind = "LSPError" -> StopKill /\ stdin' = stdin
            [] got.kind = "result" ->
                 IF WriteFails
                 THEN StopKill /\ stdin' = stdin
                 ELSE /\ stdin' = Append(stdin, NotificationMessage("exit", FALSE))
                      /\ pc' = [pc EXCEPT !["stop"] = "exiting"]
                      /\ UNCHANGED <<process, outcome, signals>>
    /\ UNCHANGED <<shared, editor, sent, orphans, running, request_id, futures, call, stdout, buffer, reader,
                   allocated, log>>

\* For comparison with StopWaitReturns: stop_server goes on without the child
\* having exited.
StopWaitReturnsEarly ==
    /\ pc["stop"] \in {"exiting", "terminated", "killed"}
    /\ StopFinally("none")
    /\ UNCHANGED <<shared, editor, sent, orphans, running, request_id, pending_requests, futures, call, stdin,
                   stdout, buffer, reader, signals, allocated, log>>

\* For comparison with StopWaitReturns: stop_server terminates the child
\* although it has exited within the 5 s.
StopWaitReturnsTerminates ==
    /\ pc["stop"] \in {"exiting", "terminated", "killed"}
    /\ ~running
    /\ StopFinally("none")
    /\ signals' = Append(signals, "SIGTERM")
    /\ UNCHANGED <<shared, editor, sent, orphans, running, request_id, pending_requests, futures, call, stdin, stdout,
                   buffer, reader, allocated, log>>

\* wait_for(self.process.wait(), 5.0) returns: the child has exited
StopWaitReturns ==
    /\ pc["stop"] \in {"exiting", "terminated", "killed"}
    /\ ~running
    /\ StopFinally("none")
    /\ UNCHANGED <<shared, editor, sent, orphans, running, request_id, pending_requests, futures, call, stdin, stdout,
                   buffer, reader, signals, allocated, log>>

\* the 5 s elapse first
StopWaitTimeout ==
    /\ pc["stop"] = "exiting"
    /\ StopTerminate
    /\ UNCHANGED <<shared, editor, sent, orphans, running, request_id, pending_requests, futures, call, stdin, stdout,
                   buffer, reader, allocated, log>>


(***************************************************************************)
(* The child process: what it writes to stdout, and its exit               *)
(***************************************************************************)
\* The result every response of the model carries: an empty list.
Response(id) == JDict(<< <<KId, JInt(id)>>, <<KResult, JList>> >>)
ErrorResponse(id) == JDict(<< <<KId, JInt(id)>>, <<KError, JInt(0)>> >>)
Notification(method) == JDict(<< <<KMethod, JStr(method)>> >>)

\* A frame as the child writes it: its bytes and, when it is the framing of a
\* JSON payload, the payload.
PayloadFrame(v) == [bytes |-> FullMessage(v), framed |-> TRUE, payload |-> v]
RawFrame(b) == [bytes |-> b, framed |-> FALSE, payload |-> JNull]

ServerFrames ==
    {PayloadFrame(Response(i)) : i \in 1..MaxRequests}
    \cup {PayloadFrame(ErrorResponse(i)) : i \in 1..MaxRequests}
    \cup {PayloadFrame(Notification(MHover))}

\* What the child may have written between two reads: one frame, or the same
\* frame up to MaxRepeat times.  (Different frames read in one pass leave the
\* client as two passes leave it.)
RECURSIVE Repeat(_, _)
Repeat(frame, n) == IF n = 0 THEN << >> ELSE <<frame>> \o Repeat(frame, n - 1)

RECURSIVE BatchBytes(_)
BatchBytes(batch) == IF batch = << >> THEN << >> ELSE batch[1].bytes \o BatchBytes(Tail(batch))

ServerBatches == {BatchBytes(Repeat(f, n)) : f \in ServerFrames, n \in 1..MaxRepeat}

\* The child exits, on its own, on exit, on a signal or by crashing.
ServerExits ==
    /\ running
    /\ running' = FALSE
    /\ UNCHANGED <<shared, editor, sent, orphans, process, request_id, pending_requests, futures, pc, call, outcome,
                   stdin, stdout, buffer, reader, signals, allocated, log>>

\* A child that ignores shutdown, exit and SIGTERM exits only when killed.
ServerKilled ==
    /\ running
    /\ \E i \in 1..Len(signals) : signals[i] = "SIGKILL"
    /\ running' = FALSE
    /\ UNCHANGED <<shared, editor, sent, orphans, process, request_id, pending_requests, futures, pc, call,
                   outcome, stdin, stdout, buffer, reader, signals, allocated, log>>

(***************************************************************************)
(* _handle_responses: one pass of the outer loop, from the return of       *)
(* stdout.read(4096) to the next read.  output is what the child wrote     *)
(* since the last read, n the number of bytes this read returns.           *)
(***************************************************************************)
ReadSize == 4096

HandleResponses(output, n) ==
    /\ reader = "reading"
    /\ n \in 1..(IF Len(stdout \o output) < ReadSize THEN Len(stdout \o output) ELSE ReadSize)
    /\ \E rs \in {InnerLoop([buffer |-> buffer \o SubSeq(stdout \o output, 1, n),
                              pending |-> pending_requests, fut |-> futures,
                              log |-> << >>, exc |-> ""])} :
          /\ stdout' = SliceFrom(stdout \o output, n)
          /\ buffer' = rs.buffer
          /\ pending_requests' = rs.pending
          /\ futures' = rs.fut
          /\ log' = rs.log
          /\ reader' = IF rs.exc # "" THEN rs.exc
                       ELSE IF process = "None" THEN "AttributeError"
                       ELSE "reading"
    /\ UNCHANGED <<shared, editor, sent, orphans, process, running, request_id, pc, call, outcome, stdin, signals,
                   allocated>>

\* read() returns b"" at end of file: the loop breaks.
HandleResponsesEOF ==
    /\ reader = "reading"
    /\ ~running
    /\ stdout = << >>
    /\ reader' = "done"
    /\ UNCHANGED <<shared, editor, sent, orphans, process, running, request_id, pending_requests, futures, pc, call,
                   outcome, stdin, stdout, buffer, signals, allocated, log>>

(***************************************************************************)
(* Byte streams that are not what a well-behaved server writes              *)
(***************************************************************************)
\* A header block without a Content-Length line.
NoLengthHeader == RawFrame(<<"A", ":", " ", "b">> \o HeaderEnd)
\* A Content-Length line whose value int() cannot parse.
BadLengthHeader == RawFrame(ContentLengthPrefix \o <<" ", "x">> \o HeaderEnd)
\* A Content-Length that int() parses, negative.
NegativeLengthHeader == RawFrame(ContentLengthPrefix \o <<" ", "-", "2", "3">> \o HeaderEnd)
\* Correctly framed bodies that are not JSON: "{" and the single byte 0xFF.
BadJsonFrame == RawFrame(FrameBytes(<<"{">>))
BadUtf8Frame == RawFrame(FrameBytes(<<BadByte>>))

MalformedHeaders == {NoLengthHeader, BadLengthHeader}
InvalidBodies == {BadJsonFrame, BadUtf8Frame}

\* JSON payloads a peer can frame: a response to request 2, a notification,
\* and a payload that is not an object.
\* A request of the server to the client: a message with an id and a method.
MConfiguration ==
    <<"w", "o", "r", "k", "s", "p", "a", "c", "e", "/", "c", "o", "n", "f", "i", "g", "u", "r",
      "a", "t", "i", "o", "n">>
ServerRequest(id) == JDict(<< <<KId, JInt(id)>>, <<KMethod, JStr(MConfiguration)>> >>)

FramerPayloads == {Response(2), Notification(MHover), JInt(7), ServerRequest(2)}

FramerFrames ==
    {PayloadFrame(v) : v \in FramerPayloads}
    \cup MalformedHeaders \cup InvalidBodies \cup {NegativeLengthHeader}

\* frames in a stream the child has written before the first read
MaxFrames == 2
FrameSeqs == UNION {[1..k -> FramerFrames] : k \in 1..MaxFrames}

(***************************************************************************)
(* Specifications                                                          *)
(***************************************************************************)
\* The client from construction on.  Every read returns all the bytes the
\* child has written since the last one.
Next ==
    \/ StartServerSpawnFails
    \/ StartServer
    \/ RestartServer
    \/ \E i \in 1..MaxRequests : OrphanExits(i)
    \/ \E i \in 1..MaxRequests : OrphanEOF(i)
    \/ ReturnInitialize
    \/ \E c \in Callers : CallRequest(c)
    \/ \E c \in Callers : ReturnRequest(c)
    \/ \E t \in Tasks : Timeout(t)
    \/ StopServer
    \/ ReturnShutdown
    \/ StopWaitReturns
    \/ StopWaitTimeout
    \/ ServerExits
    \/ \E output \in ServerBatches : HandleResponses(output, Len(output))
    \/ HandleResponsesEOF

Spec == Init /\ [][Next]_vars

\* The client while nobody calls stop_server.
NextBroker ==
    \/ StartServerSpawnFails
    \/ StartServer
    \/ ReturnInitialize
    \/ \E c \in Callers : CallRequest(c)
    \/ \E c \in Callers : ReturnRequest(c)
    \/ \E t \in Tasks : Timeout(t)
    \/ ServerExits
    \/ \E output \in ServerBatches : HandleResponses(output, Len(output))
    \/ HandleResponsesEOF

SpecBroker == Init /\ [][NextBroker]_vars

\* One start_server call and stop_server calls, with no other caller.
NextStop ==
    \/ StartServerSpawnFails
    \/ StartServer
    \/ ReturnInitialize
    \/ \E t \in Tasks : Timeout(t)
    \/ StopServer
    \/ ReturnShutdown
    \/ StopWaitReturns
    \/ StopWaitTimeout
    \/ ServerExits
    \/ \E output \in ServerBatches : HandleResponses(output, Len(output))
    \/ HandleResponsesEOF

SpecStop == Init /\ [][NextStop]_vars

\* start_server and stop_server against a child that never exits on its own:
\* it may answer or not, and only SIGKILL ends it.
NextStubborn ==
    \/ StartServer
    \/ ReturnInitialize
    \/ \E t \in Tasks : Timeout(t)
    \/ StopServer
    \/ ReturnShutdown
    \/ StopWaitReturns
    \/ StopWaitTimeout
    \/ ServerKilled
    \/ \E output \in ServerBatches : HandleResponses(output, Len(output))
    \/ HandleResponsesEOF

SpecStubborn == Init /\ [][NextStubborn]_vars

\* The read loop on a byte stream.  The client has started (request 1,
\* "initialize", got its result), c1 waits for the response to request 2, and
\* the child has written the frames of sent; reads return any number of the
\* bytes that are there.
InitFramer ==
    /\ process = "Process"
    /\ running = TRUE
    /\ request_id = 2
    /\ pending_requests = DictSet(<< >>, 2, 2)
    /\ futures = <<[state |-> "result", val |-> JList], NewFuture>>
    /\ pc = [t \in Tasks |-> CASE t = "start" -> "ready" [] t = "stop" -> "idle" [] OTHER -> "wait"]
    /\ call = [t \in Tasks |-> CASE t = "start" -> [id |-> 1, fut |-> 1]
                                 [] t = "stop" -> NoCall
                                 [] OTHER -> [id |-> 2, fut |-> 2]]
    /\ outcome = [t \in Tasks |-> IF t = "start" THEN [kind |-> "result", val |-> JList] ELSE NoOutcome]
    /\ stdin = <<RequestMessage(1, "initialize", TRUE), NotificationMessage("initialized", TRUE),
                 RequestMessage(2, "hover", TRUE)>>
    /\ sent \in FrameSeqs
    /\ stdout = BatchBytes(sent)
    /\ buffer = << >>
    /\ reader = "reading"
    /\ signals = << >>
    /\ allocated = <<1, 2>>
    /\ log = << >>
    /\ orphans = << >>
    /\ InitEditor
    /\ InitShared

\* One read that returns the first n of the bytes waiting in the pipe.
HandleResponsesChunk == \E n \in 1..Len(stdout) : HandleResponses(<< >>, n)

NextFramer ==
    \/ HandleResponsesChunk
    \/ \E c \in Callers : ReturnRequest(c)
    \/ ServerExits
    \/ HandleResponsesEOF

SpecFramer == InitFramer /\ [][NextFramer]_vars

(***************************************************************************)
(* The request operations and what they return                             *)
(***************************************************************************)
\* A Python list with items: the pairs <<index, item>> in the member field.
ListOf(items) ==
    [t |-> "list", n |-> 0, s |-> << >>,
     m |-> [i \in 1..Len(items) |-> <<IntToStr(i - 1), items[i]>>]]
Items(l) == [i \in 1..Len(l.m) |-> l.m[i][2]]

KItems == <<"i", "t", "e", "m", "s">>
KLabel == <<"l", "a", "b", "e", "l">>
KUri == <<"u", "r", "i">>

\* get_completions: the items of a CompletionList, a bare list, or [].
GetCompletions(response) ==
    IF response.t = "dict" /\ Has(response, KItems) THEN Get(response, KItems)
    ELSE IF response.t = "list" THEN response
    ELSE JList

\* For comparison with GetDefinition: the response is returned as it is.
GetDefinitionRaw(response) == response

\* get_definition: a list as it is, a dict in a list, anything else [].
GetDefinition(response) ==
    IF response.t = "list" THEN response
    ELSE IF response.t = "dict" THEN ListOf(<<response>>)
    ELSE JList

\* get_declaration and get_hover_info return the response.
GetDeclaration(response) == response
GetHoverInfo(response) == response

Operations == {"completion", "definition", "declaration", "hover"}

Returns(op, response) ==
    CASE op = "completion" -> GetCompletions(response)
      [] op = "definition" -> GetDefinition(response)
      [] op = "declaration" -> GetDeclaration(response)
      [] op = "hover" -> GetHoverInfo(response)

\* Results a server may put in a response.
LabelFoo == JDict(<< <<KLabel, JStr(<<"f", "o", "o">>)>> >>)
LabelBar == JDict(<< <<KLabel, JStr(<<"b", "a", "r">>)>> >>)
Location == JDict(<< <<KUri, JStr(<<"a">>)>> >>)
ServerResults ==
    {JNull, JInt(7), JStr(<<"x">>), JDict(<< >>), Location,
     JList, ListOf(<<Location>>), ListOf(<<LabelFoo>>), ListOf(<<LabelFoo, LabelBar>>),
     JDict(<< <<KItems, ListOf(<<LabelFoo>>)>> >>), JDict(<< <<KItems, JList>> >>),
     JDict(<< <<KItems, JNull>> >>)}

\* The operation task c is in: the method of the request it wrote.
OperationOf(c) == stdin[CHOOSE i \in 1..Len(stdin) : stdin[i].id = call[c].id].method

\* A request operation called on a started client, to the await of
\* _send_request.
CallOperation(c, op) ==
    /\ pc[c] = "idle"
    /\ process # "None"
    /\ request_id < MaxRequests
    /\ SendRequest(c, op, TRUE)
    /\ IF WriteFails
       THEN /\ outcome' = [outcome EXCEPT ![c] = Raised("ConnectionResetError")]
            /\ pc' = pc
       ELSE /\ outcome' = [outcome EXCEPT ![c] = NoOutcome]
            /\ pc' = [pc EXCEPT ![c] = "wait"]
    /\ UNCHANGED <<shared, editor, sent, orphans, process, running, stdout, buffer, reader, signals, log>>

\* The read loop hands _process_message the response {"id": id, "result":
\* result} of the child.
ProcessResult(id, result) ==
    /\ reader = "reading"
    /\ running
    /\ \E r \in {ProcessMessage([pending |-> pending_requests, fut |-> futures, exc |-> ""],
                                 JDict(<< <<KId, JInt(id)>>, <<KResult, result>> >>))} :
          /\ futures' = r.fut
          /\ pending_requests' = r.pending
          /\ reader' = IF r.exc # "" THEN r.exc ELSE reader
    /\ UNCHANGED <<shared, editor, sent, orphans, process, running, request_id, pc, call, outcome, stdin, stdout,
                   buffer, signals, allocated, log>>

\* _send_request returns the future's result, and the operation what it
\* makes of it.
ReturnOperation(c) ==
    /\ c \in Callers
    /\ pc[c] = "wait"
    /\ FutureDone(futures[call[c].fut])
    /\ pending_requests' = Finally(c)
    /\ \E got \in {Awaited(futures[call[c].fut])} :
          outcome' = [outcome EXCEPT ![c] =
                         IF got.kind = "result"
                         THEN [kind |-> "result", val |-> Returns(OperationOf(c), got.val)]
                         ELSE got]
    /\ pc' = [pc EXCEPT ![c] = "idle"]
    /\ UNCHANGED <<shared, editor, sent, orphans, process, running, request_id, futures, call, stdin, stdout, buffer,
                   reader, signals, allocated, log>>

\* A started client: request 1, "initialize", got its result and
\* "initialized" was written.
InitOperations ==
    /\ process = "Process"
    /\ running = TRUE
    /\ request_id = 1
    /\ pending_requests = << >>
    /\ futures = <<[state |-> "result", val |-> JDict(<< >>)]>>
    /\ pc = [t \in Tasks |-> IF t = "start" THEN "ready" ELSE "idle"]
    /\ call = [t \in Tasks |-> IF t = "start" THEN [id |-> 1, fut |-> 1] ELSE NoCall]
    /\ outcome = [t \in Tasks |->
                    IF t = "start" THEN [kind |-> "result", val |-> JDict(<< >>)] ELSE NoOutcome]
    /\ stdin = <<RequestMessage(1, "initialize", TRUE), NotificationMessage("initialized", TRUE)>>
    /\ stdout = << >>
    /\ buffer = << >>
    /\ reader = "reading"
    /\ signals = << >>
    /\ allocated = <<1>>
    /\ log = << >>
    /\ sent = << >>
    /\ orphans = << >>
    /\ InitEditor
    /\ InitShared

NextOperations ==
    \/ \E c \in Callers, op \in Operations : CallOperation(c, op)
    \/ \E id \in 1..MaxRequests, result \in ServerResults : ProcessResult(id, result)
    \/ \E c \in Callers : ReturnOperation(c)
    \/ \E t \in Callers : Timeout(t)
    \/ ServerExits

SpecOperations == InitOperations /\ [][NextOperations]_vars

(***************************************************************************)
(* EditorState: the tabs.  A tab is [id, path, on_not_active]; the event   *)
(* on_not_active is TRUE when it is set.                                   *)
(***************************************************************************)
\* The files a user opens, and the ids uuid4 gives: a new tab gets an id no
\* open tab has (no reference to a closed tab's id is kept anywhere).
Paths == {"f1.py", "f2.py", "f3.py"}
Uuids == <<"1", "2", "3">>
TabIds == {Uuids[i] : i \in 1..Len(Uuids)}
Uuid4(ts) ==
    Uuids[CHOOSE i \in 1..Len(Uuids) :
            /\ \A k \in 1..Len(ts) : ts[k].id # Uuids[i]
            /\ \A j \in 1..(i - 1) : \E k \in 1..Len(ts) : ts[k].id = Uuids[j]]

\* active_tab_history entries the model follows
MaxHistory == 3

\* next((tab for tab in ts if <test>), None), as the index of the tab or 0
IndexById(ts, tab_id) ==
    IF \E i \in 1..Len(ts) : ts[i].id = tab_id
    THEN CHOOSE i \in 1..Len(ts) : ts[i].id = tab_id /\ \A j \in 1..(i - 1) : ts[j].id # tab_id
    ELSE 0
IndexByPath(ts, file_path) ==
    IF \E i \in 1..Len(ts) : ts[i].path = file_path
    THEN CHOOSE i \in 1..Len(ts) :
            ts[i].path = file_path /\ \A j \in 1..(i - 1) : ts[j].path # file_path
    ELSE 0

\* _stop_updating_active_tab: the active tab's on_not_active is set; nothing
\* happens when no tab has the id active.
StopUpdatingActiveTab(ts, active) ==
    IF IndexById(ts, active) = 0 THEN ts
    ELSE [ts EXCEPT ![IndexById(ts, active)].on_not_active = TRUE]

\* For comparison with OpenFile: a tab is made whether or not one with the
\* path is open.
OpenFileAlwaysNew(file_path) ==
    /\ active_tab_id = "None" \/ Len(active_tab_history) < MaxHistory
    /\ Len(tabs) < Len(Uuids)
    /\ \E ts \in {Append(tabs, [id |-> Uuid4(tabs), path |-> file_path,
                                 on_not_active |-> FALSE])} :
          /\ IF active_tab_id # "None"
             THEN /\ active_tab_history' = Append(active_tab_history, active_tab_id)
                  /\ tabs' = StopUpdatingActiveTab(ts, active_tab_id)
             ELSE /\ active_tab_history' = active_tab_history
                  /\ tabs' = ts
          /\ active_tab_id' = ts[Len(ts)].id
    /\ UNCHANGED <<closed_tab, client, shared>>

\* open_file for a file that can be read and decoded.
OpenFile(file_path) ==
    /\ active_tab_id = "None" \/ Len(active_tab_history) < MaxHistory
    /\ \E ts \in {IF IndexByPath(tabs, file_path) = 0
                   THEN Append(tabs, [id |-> Uuid4(tabs), path |-> file_path,
                                      on_not_active |-> FALSE])
                   ELSE tabs} :
          /\ IF active_tab_id # "None"
             THEN /\ active_tab_history' = Append(active_tab_history, active_tab_id)
                  /\ tabs' = StopUpdatingActiveTab(ts, active_tab_id)
             ELSE /\ active_tab_history' = active_tab_history
                  /\ tabs' = ts
          /\ active_tab_id' = ts[IndexByPath(ts, file_path)].id
    /\ UNCHANGED <<closed_tab, client, shared>>

\* For comparison with CloseTab: the closed tab's id stays in the history.
CloseTabKeepsHistory(tab_id) ==
    \E stopped \in {StopUpdatingActiveTab(tabs, active_tab_id)} :
    \E ts \in {SelectSeq(stopped, LAMBDA tab : tab.id # tab_id)},
       history \in {active_tab_history} :
       /\ tabs' = ts
       /\ closed_tab' = IF IndexById(stopped, tab_id) = 0 THEN closed_tab
                        ELSE stopped[IndexById(stopped, tab_id)]
       /\ IF active_tab_id = tab_id /\ history # << >>
          THEN /\ active_tab_history' = SubSeq(history, 1, Len(history) - 1)
               /\ active_tab_id' = history[Len(history)]
          ELSE /\ active_tab_history' = history
               /\ active_tab_id' = IF active_tab_id # tab_id THEN active_tab_id ELSE "None"
       /\ UNCHANGED <<client, shared>>

\* close_tab
CloseTab(tab_id) ==
    \E stopped \in {StopUpdatingActiveTab(tabs, active_tab_id)} :
    \E ts \in {SelectSeq(stopped, LAMBDA tab : tab.id # tab_id)},
       history \in {SelectSeq(active_tab_history, LAMBDA tab : tab # tab_id)} :
       /\ tabs' = ts
       /\ closed_tab' = IF IndexById(stopped, tab_id) = 0 THEN closed_tab
                        ELSE stopped[IndexById(stopped, tab_id)]
       /\ IF active_tab_id = tab_id /\ history # << >>
          THEN /\ active_tab_history' = SubSeq(history, 1, Len(history) - 1)
               /\ active_tab_id' = history[Len(history)]
          ELSE /\ active_tab_history' = history
               /\ active_tab_id' = IF active_tab_id # tab_id THEN active_tab_id ELSE "None"
       /\ UNCHANGED <<client, shared>>

\* set_active_tab for an open tab that is not the active one (otherwise it
\* returns at once).
SetActiveTab(tab_id) ==
    /\ IndexById(tabs, tab_id) # 0
    /\ active_tab_id # tab_id
    /\ active_tab_id = "None" \/ Len(active_tab_history) < MaxHistory
    /\ active_tab_history' = IF active_tab_id # "None"
                             THEN Append(active_tab_history, active_tab_id)
                             ELSE active_tab_history
    /\ active_tab_id' = tab_id
    /\ tabs' = [StopUpdatingActiveTab(tabs, active_tab_id)
                    EXCEPT ![IndexById(tabs, tab_id)].on_not_active = FALSE]
    /\ UNCHANGED <<closed_tab, client, shared>>

\* The LSP client of an editor session: constructed, not started.
InitTabs == Init

NextTabs ==
    \/ \E file_path \in Paths : OpenFile(file_path)
    \/ \E tab_id \in TabIds : CloseTab(tab_id)
    \/ \E tab_id \in TabIds : SetActiveTab(tab_id)

SpecTabs == InitTabs /\ [][NextTabs]_vars

\* open_settings: the settings tab is made unless a tab has its id, then
\* set_active_tab("settings") runs, which returns at once when the settings
\* tab is the active one.
SettingsTab == [id |-> "settings", path |-> "settings.json", on_not_active |-> FALSE]
OpenSettings ==
    /\ active_tab_id \in {"None", "settings"} \/ Len(active_tab_history) < MaxHistory
    /\ \E ts \in {IF IndexById(tabs, "settings") = 0 THEN Append(tabs, SettingsTab) ELSE tabs} :
          IF active_tab_id = "settings"
          THEN /\ tabs' = ts
               /\ UNCHANGED <<active_tab_id, active_tab_history>>
          ELSE /\ active_tab_history' = IF active_tab_id # "None"
                                        THEN Append(active_tab_history, active_tab_id)
                                        ELSE active_tab_history
               /\ active_tab_id' = "settings"
               /\ tabs' = [StopUpdatingActiveTab(ts, active_tab_id)
                               EXCEPT ![IndexById(ts, "settings")].on_not_active = FALSE]
    /\ UNCHANGED <<closed_tab, client, shared>>

\* The editor with the settings tab: the ids a handler can be called with
\* are those of the file tabs and "settings".
NextSettings ==
    \/ \E file_path \in Paths : OpenFile(file_path)
    \/ \E tab_id \in TabIds \cup {"settings"} : CloseTab(tab_id)
    \/ \E tab_id \in TabIds \cup {"settings"} : SetActiveTab(tab_id)
    \/ OpenSettings

SpecSettings == InitTabs /\ [][NextSettings]_vars

(***************************************************************************)
(* The module-level client: get_lsp_client and                             *)
(* CommandPaletteState._restart_lsp_with_interpreter.  Of an instance the  *)
(* model keeps how far its start_server call has come ("spawning" while    *)
(* create_subprocess_exec is awaited, "initializing" while _initialize is, *)
(* then "ready" or "failed"), whether self.process is set, and whether a   *)
(* stop_server call on it has ended.  A child is alive while self.process  *)
(* is set: start_server never ends it, stop_server clears the handle after *)
(* its exit.                                                               *)
(***************************************************************************)
\* instances made for the module-level name
MaxInstances == 3

\* BasedPyrightLSPClient(...) followed by start_server up to its first await
NewInstance == [start |-> "spawning", process |-> FALSE, stopped |-> FALSE]

\* lsp_client = BasedPyrightLSPClient(); await lsp_client.start_server()
InstallAndStart(u) ==
    /\ Len(instances) < MaxInstances
    /\ instances' = Append(instances, NewInstance)
    /\ lsp_client' = Len(instances) + 1
    /\ users' = [users EXCEPT ![u] = [pc |-> "spawning", inst |-> Len(instances) + 1, got |-> 0]]

\* get_lsp_client up to its await, or to its return when a client is installed
GetLspClient(g) ==
    /\ users[g].pc \in {"idle", "returned", "raised"}
    /\ IF lsp_client = 0
       THEN InstallAndStart(g)
       ELSE /\ users' = [users EXCEPT ![g] = [pc |-> "returned", inst |-> 0, got |-> lsp_client]]
            /\ UNCHANGED <<lsp_client, instances>>
    /\ UNCHANGED <<client, editor>>

\* start_server of task u: create_subprocess_exec returns, self.process is
\* set, the read loop is started and _initialize awaits the response
StartServerSpawned(u) ==
    /\ users[u].pc = "spawning"
    /\ instances' = [instances EXCEPT ![users[u].inst].start = "initializing",
                                      ![users[u].inst].process = TRUE]
    /\ users' = [users EXCEPT ![u].pc = "initializing"]
    /\ UNCHANGED <<lsp_client, client, editor>>

\* start_server raises: the spawn failed, or initialize got an error, timed
\* out or could not be written.  The caller's function raises with it.
StartServerRaises(u) ==
    /\ users[u].pc \in {"spawning", "initializing"}
    /\ instances' = [instances EXCEPT ![users[u].inst].start = "failed"]
    /\ users' = [users EXCEPT ![u] = [pc |-> "raised", inst |-> 0, got |-> 0]]
    /\ UNCHANGED <<lsp_client, client, editor>>

\* start_server returns: initialize was answered and "initialized" written,
\* which needs self.process.  get_lsp_client then returns the module-level
\* name as it is now (line 312); _restart_lsp_with_interpreter returns None.
StartServerReturns(u) ==
    /\ users[u].pc = "initializing"
    /\ instances[users[u].inst].process
    /\ instances' = [instances EXCEPT ![users[u].inst].start = "ready"]
    /\ users' = [users EXCEPT ![u] = [pc |-> "returned", inst |-> 0,
                                      got |-> IF u \in Getters THEN lsp_client ELSE 0]]
    /\ UNCHANGED <<lsp_client, client, editor>>

\* _restart_lsp_with_interpreter up to its first await: stop_server of the
\* installed client suspends when that client has a process; otherwise it
\* returns at once, the name is set to None and the new client is installed.
RestartLspWithInterpreter(r) ==
    /\ users[r].pc \in {"idle", "returned", "raised"}
    /\ IF lsp_client # 0 /\ instances[lsp_client].process
       THEN /\ users' = [users EXCEPT ![r] = [pc |-> "stopping", inst |-> lsp_client, got |-> 0]]
            /\ UNCHANGED <<lsp_client, instances>>
       ELSE InstallAndStart(r)
    /\ UNCHANGED <<client, editor>>

\* stop_server returns: the handle of the stopped client is cleared, the name
\* is set to None (line 226), the new client is made, installed and started.
RestartStopReturns(r) ==
    /\ users[r].pc = "stopping"
    /\ Len(instances) < MaxInstances
    /\ instances' = Append([instances EXCEPT ![users[r].inst].process = FALSE,
                                             ![users[r].inst].stopped = TRUE], NewInstance)
    /\ lsp_client' = Len(instances) + 1
    /\ users' = [users EXCEPT ![r] = [pc |-> "spawning", inst |-> Len(instances) + 1, got |-> 0]]
    /\ UNCHANGED <<client, editor>>

\* stop_server raises (terminate() on a child whose transport is closed):
\* its finally clause has cleared the handle, line 226 is not reached.
RestartStopRaises(r) ==
    /\ users[r].pc = "stopping"
    /\ instances' = [instances EXCEPT ![users[r].inst].process = FALSE,
                                      ![users[r].inst].stopped = TRUE]
    /\ users' = [users EXCEPT ![r] = [pc |-> "raised", inst |-> 0, got |-> 0]]
    /\ UNCHANGED <<lsp_client, client, editor>>

NextShared ==
    \/ \E g \in Getters : GetLspClient(g)
    \/ \E r \in Restarters : RestartLspWithInterpreter(r)
    \/ \E u \in Users : StartServerSpawned(u)
    \/ \E u \in Users : StartServerRaises(u)
    \/ \E u \in Users : StartServerReturns(u)
    \/ \E r \in Restarters : RestartStopReturns(r)
    \/ \E r \in Restarters : RestartStopRaises(r)

SpecShared == Init /\ [][NextShared]_vars

(***************************************************************************)
(* Properties                                                              *)
(***************************************************************************)
\* A log entry is a response when its message is an object with an id; it is
\* matched when that id is a key of pending_requests as the call found it.
IsObject(e) == e.msg.t = "dict"
IsResponse(e) == IsObject(e) /\ Has(e.msg, KId)
Matched(e) == IsResponse(e) /\ Get(e.msg, KId).t = "int" /\ Get(e.msg, KId).n \in DOMAIN e.pending
Target(e) == e.pending[Get(e.msg, KId).n]
Untouched(e) == e.after = e.before /\ e.pendingAfter = e.pending /\ e.raised = ""
InFlight == {t \in Tasks : pc[t] = "wait"}

\* C1: the request ids _send_request hands out are positive and strictly
\* increasing in allocation order, hence pairwise distinct and never reused;
\* calls that are in flight together hold different ids.
C1_RequestIdsIncrease ==
    /\ \A i \in 1..Len(allocated) :
          /\ allocated[i] > 0
          /\ \A j \in 1..(i - 1) : allocated[j] < allocated[i]
    /\ \A t, u \in InFlight : t # u => call[t].id # call[u].id

\* Two _send_request calls are in flight together.
C1_TwoCallsInFlight ==
    /\ pc["start"] = "wait"
    /\ pc["c1"] = "wait"
    /\ Len(allocated) = 2

\* C2: a response for id K resolves the pending future of K, once; a later
\* response for the same K, also one that arrives in the same read, is
\* discarded without raising.
C2_ResolvedExactlyOnce ==
    \A i \in 1..Len(log) :
        Matched(log[i]) =>
            IF log[i].before[Target(log[i])] = "pending"
            THEN /\ log[i].raised = ""
                 /\ \A k \in DOMAIN log[i].before :
                       (log[i].after[k] # log[i].before[k]) <=> (k = Target(log[i]))
            ELSE Untouched(log[i])

\* C3: when the read loop has seen the end of the child's stdout, no request
\* is left pending: every future still registered has been failed.
C3_PendingFailedAtExit ==
    reader = "done" =>
        \A id \in DOMAIN pending_requests : futures[pending_requests[id]].state # "pending"

\* C4: the read loop stops only at end of file: whatever bytes arrive, it is
\* still reading, or has returned after the child exited and its output was
\* read to the end.
C4_LoopStopsOnlyAtEOF ==
    /\ reader \in {"none", "reading", "done"}
    /\ reader = "done" => ~running /\ stdout = << >>

\* The streams C5 and C6 are stated on: one damaged frame, alone or followed
\* by a well-formed notification, read to the end.
DamagedStreamRead(frames) ==
    /\ sent[1] \in frames
    /\ Len(sent) = 2 => sent[2] = PayloadFrame(Notification(MHover))
    /\ stdout = << >>
NextDispatched ==
    Len(sent) = 2 => Len(log) = 1 /\ log[1].msg = Notification(MHover) /\ Untouched(log[1])

\* C5: a header block without a Content-Length, or with one that is not an
\* integer, is discarded and the loop goes on with the bytes after it; no
\* exception leaves the loop.
C5_MalformedHeaderDiscarded ==
    DamagedStreamRead(MalformedHeaders) =>
        /\ reader \in {"reading", "done"}
        /\ buffer = << >>
        /\ NextDispatched

\* C6: a correctly framed body that is not valid JSON is dropped, header and
\* body and nothing more; it resolves no future, and the message after it is
\* parsed and dispatched.
C6_InvalidBodyDropped ==
    DamagedStreamRead(InvalidBodies) =>
        /\ reader \in {"reading", "done"}
        /\ buffer = << >>
        /\ futures[2].state = "pending"
        /\ NextDispatched

\* The number of sent's frames that end within the first c bytes of the stream.
RECURSIVE FrameEnd(_)
FrameEnd(i) == IF i = 0 THEN 0 ELSE FrameEnd(i - 1) + Len(sent[i].bytes)
Consumed == FrameEnd(Len(sent)) - Len(stdout)
Complete(c) == Cardinality({i \in 1..Len(sent) : FrameEnd(i) <= c})
Dispatched(l) == [i \in 1..Len(l) |-> l[i].msg]

\* C7: when the stream is the framing of JSON payloads, every read, whatever
\* its size, dispatches exactly the payloads whose last byte it delivers, in
\* order: each payload is dispatched once, when it is complete.
C7_FramingRoundTrip ==
    [][((\A i \in 1..Len(sent) : sent[i].framed) /\ stdout' # stdout)
        => Dispatched(log') = [j \in 1..(Complete(Consumed') - Complete(Consumed))
                                 |-> sent[Complete(Consumed) + j].payload]]_vars

\* C8: a call that has returned a result, an error response or a timeout has
\* left no entry in pending_requests; with no call in flight the map is
\* empty; and the read loop never fails on the future of a call that timed out.
C8_PendingMapCleaned ==
    /\ \A t \in Tasks \ InFlight :
          outcome[t].kind \in {"result", "LSPError", "TimeoutError"} /\ call[t] # NoCall
             => call[t].id \notin DOMAIN pending_requests
    /\ InFlight = {} => pending_requests = << >>
    /\ \A i \in 1..Len(log) :
          Matched(log[i]) /\ log[i].before[Target(log[i])] = "cancelled" => log[i].raised = ""

\* C9: a response whose id is not a key of pending_requests raises nothing
\* and changes no future and no entry; a future changes only through a
\* response whose id is registered for it.
C9_UnknownIdDiscarded ==
    \A i \in 1..Len(log) :
        /\ IsResponse(log[i]) /\ ~Matched(log[i]) => Untouched(log[i])
        /\ \A k \in DOMAIN log[i].before :
              log[i].after[k] # log[i].before[k] => Matched(log[i]) /\ Target(log[i]) = k

\* The response to request 1 arrives after request 1 timed out and its entry
\* was removed, while request 2 is pending.
C9_LateResponseSeen ==
    \E i \in 1..Len(log) :
        /\ log[i].msg = Response(1)
        /\ outcome["start"].kind = "TimeoutError"
        /\ DOMAIN log[i].pending = {2}
        /\ log[i].before[2] = "pending"

\* C10: a message without an id raises nothing, changes no future and removes
\* no entry of pending_requests, whatever its method.
C10_NotificationResolvesNothing ==
    \A i \in 1..Len(log) :
        IsObject(log[i]) /\ ~Has(log[i].msg, KId) => Untouched(log[i])

\* A textDocument/hover notification arrives while c1's textDocument/hover
\* request is pending.
C10_NotificationDuringRequest ==
    \E i \in 1..Len(log) :
        /\ log[i].msg = Notification(MHover)
        /\ pc["c1"] = "wait"
        /\ stdin[Len(stdin)] = RequestMessage(call["c1"].id, "hover", TRUE)
        /\ call["c1"].id \in DOMAIN log[i].pending
        /\ log[i].before[call["c1"].fut] = "pending"

\* How many messages with this method have been written to stdin.
Count(method) == Cardinality({i \in 1..Len(stdin) : stdin[i].method = method})

\* C11: start_server writes one initialize request, writes one initialized
\* notification only after the result of initialize has been received, and
\* has written both, once each, when it returns; the read loop exists before
\* anything is written.
C11_InitializeHandshake ==
    /\ Count("initialize") <= 1
    /\ Count("initialized") <= 1
    /\ \A i \in 1..Len(stdin) :
          stdin[i].method = "initialized"
             => /\ \E j \in 1..(i - 1) : stdin[j].method = "initialize"
                /\ futures[call["start"].fut].state = "result"
    /\ pc["start"] = "ready" => Count("initialize") = 1 /\ Count("initialized") = 1
    /\ stdin # << >> => reader # "none"

\* start_server has returned while stop_server's shutdown request is in
\* flight.
C11_StartedWithShutdownInFlight ==
    /\ pc["start"] = "ready"
    /\ pc["stop"] = "wait"
    /\ Count("initialized") = 1

\* The client is Ready: start_server has returned, the handle is set and no
\* stop_server call is running.
Ready ==
    /\ pc["start"] = "ready"
    /\ process = "Process"
    /\ pc["stop"] \in {"idle", "stopped"}

\* C12: a request-style operation called while the client is not Ready fails
\* with "Server not started" (RuntimeError) and writes nothing.
C12_NotStartedOutsideReady ==
    [][\A c \in Callers :
          (pc[c] = "idle" /\ ~Ready /\ (call'[c] # call[c] \/ outcome'[c] # outcome[c]))
             => /\ outcome'[c] = Raised("RuntimeError")
                /\ call'[c] = call[c]
                /\ stdin' = stdin]_vars

\* C13: stop_server writes shutdown (a request without params), then exit,
\* and signals the process only after exit has been written.
C13_ShutdownExitThenSignal ==
    /\ \A i \in 1..Len(stdin) :
          stdin[i].method = "shutdown" => stdin[i].id # 0 /\ ~stdin[i].params
    /\ \A i \in 1..Len(stdin) :
          stdin[i].method = "exit" => \E j \in 1..(i - 1) : stdin[j].method = "shutdown"
    /\ signals # << >> => Count("exit") >= 1

\* A step of the task that runs stop_server.
StopStep ==
    \/ pc'["stop"] # pc["stop"]
    \/ call'["stop"] # call["stop"]
    \/ outcome'["stop"] # outcome["stop"]

\* C14: every step that ends a stop_server call leaves self.process None;
\* a stop_server call that finds self.process None writes nothing, signals
\* nothing and returns normally.
C14_StopClearsHandle ==
    [][/\ StopStep /\ pc'["stop"] = "stopped" => process' = "None"
       /\ StopStep /\ process = "None"
             => /\ stdin' = stdin
                /\ signals' = signals
                /\ outcome'["stop"] = NoOutcome
                /\ pc'["stop"] = "stopped"]_vars

\* stop_server has ended on the path that terminates the process.
C14_StoppedAfterTerminate ==
    /\ pc["stop"] = "stopped"
    /\ process = "None"
    /\ signals = <<"SIGTERM">>

\* C15: against a child that only SIGKILL ends, a running stop_server call is
\* never left waiting for good: whenever it waits, its future is done, a
\* timer of it can still elapse, or the child has exited or been killed.
C15_StopNeverStuck ==
    pc["stop"] \in {"wait", "exiting", "terminated", "killed"}
       => ENABLED (\/ Timeout("stop")
                   \/ ReturnShutdown
                   \/ StopWaitReturns
                   \/ StopWaitTimeout
                   \/ ServerKilled)

\* C16: the handle is cleared only after the child has exited: whenever
\* self.process is None, and so whenever stop_server has returned, the child
\* this client last spawned is not alive.
C16_ClearedOnlyAfterExit == process = "None" => ~running

\* stop_server has returned after killing the child.
C16_StoppedAfterKill ==
    /\ pc["stop"] = "stopped"
    /\ process = "None"
    /\ signals = <<"SIGKILL">>
    /\ ~running

\* C17: a stop_server call returns normally, also when the shutdown request
\* or the wait for the child's exit timed out and the child was already dead
\* when stop_server went to terminate it.
C17_TimeoutDoesNotFail == pc["stop"] = "stopped" => outcome["stop"] = NoOutcome

\* The children this instance has spawned that are alive, and its read loop
\* tasks that have not ended.
Children ==
    (IF running THEN 1 ELSE 0) + Cardinality({i \in 1..Len(orphans) : orphans[i].running})
ReadLoops ==
    (IF reader = "reading" THEN 1 ELSE 0) + Cardinality({i \in 1..Len(orphans) : orphans[i].reading})

\* C18: a client instance has at most one live child process and at most one
\* live read loop, whatever the sequence of start_server and stop_server calls.
C18_OneProcessOneLoop == Children <= 1 /\ ReadLoops <= 1

\* The bytes written to stdin so far: one write() call per message, each
\* with the whole frame.
RECURSIVE StdinBytes(_)
StdinBytes(n) == IF n = 0 THEN << >> ELSE StdinBytes(n - 1) \o FullMessage(MessageDict(stdin[n]))
\* What a Content-Length reader, the client's own inner loop, makes of them.
StdinFrames ==
    InnerLoop([buffer |-> StdinBytes(Len(stdin)), pending |-> << >>, fut |-> << >>,
               log |-> << >>, exc |-> ""])

\* C19: the bytes written to stdin are a concatenation of complete frames, a
\* header followed by exactly Content-Length bytes of body, one frame per
\* message sent and in the order of the sends, with no byte left over.
C19_StdinIsWholeFrames ==
    \A rs \in {StdinFrames} :
        /\ rs.exc = ""
        /\ rs.buffer = << >>
        /\ Dispatched(rs.log) = [i \in 1..Len(stdin) |-> MessageDict(stdin[i])]

\* stop_server's shutdown request was written between start_server's
\* initialize request and its initialized notification.
C19_WritesInterleaved ==
    /\ Len(stdin) = 3
    /\ stdin[1].method = "initialize"
    /\ stdin[2].method = "shutdown"
    /\ stdin[3].method = "initialized"

\* The tasks whose _send_request call has returned or raised after its await
\* (a call whose write raised never awaited its future).
Returned ==
    {t \in {"start"} \cup Callers :
        /\ pc[t] # "wait" /\ call[t] # NoCall
        /\ ~(outcome[t].kind = "ConnectionResetError" /\ futures[call[t].fut].state # "result")}

\* C20: a response with an error member for a pending request sets the
\* exception of that request's future and changes nothing else; the caller of
\* that request gets the error, with the error object, and a caller gets an
\* error only so; a timeout is a different outcome.
C20_ErrorSurfaced ==
    /\ \A i \in 1..Len(log) :
          Matched(log[i]) /\ Has(log[i].msg, KError) /\ log[i].before[Target(log[i])] = "pending"
             => /\ log[i].raised = ""
                /\ log[i].pendingAfter = log[i].pending
                /\ \A k \in DOMAIN log[i].before :
                      log[i].after[k] = IF k = Target(log[i]) THEN "exception" ELSE log[i].before[k]
    /\ \A t \in Returned :
          /\ futures[call[t].fut].state = "exception"
                => /\ outcome[t].kind = "LSPError"
                   /\ t \in Callers => outcome[t].val = futures[call[t].fut].val
          /\ outcome[t].kind = "LSPError" => futures[call[t].fut].state = "exception"
          /\ outcome[t].kind = "TimeoutError" => futures[call[t].fut].state = "cancelled"

\* A caller has got the error of its request while start_server's initialize
\* request is still pending.
C20_ErrorToCaller ==
    /\ outcome["c1"].kind = "LSPError"
    /\ pc["start"] = "wait"
    /\ futures[call["start"].fut].state = "pending"

\* The last start_server call failed to spawn the child, and start_server has
\* not been called again.
SpawnFailed == pc["start"] = "failed" /\ outcome["start"].kind = "OSError"

\* A request operation of caller c starts or ends in this step.
CallerStep(c) == call'[c] # call[c] \/ outcome'[c] # outcome[c] \/ pc'[c] # pc[c]

ReturnedFrom(c, op) ==
    /\ pc[c] = "idle" /\ call[c] # NoCall
    /\ outcome[c].kind = "result"
    /\ futures[call[c].fut].state = "result"
    /\ OperationOf(c) = op

\* v is what the normalisation of a definition or declaration result r is to
\* be: [r] for an object, r for a list, [] for null (and anything else).
IsNormalized(r, v) ==
    /\ v.t = "list"
    /\ r.t = "dict" => Items(v) = <<r>>
    /\ r.t = "list" => v = r
    /\ r.t \notin {"dict", "list"} => Items(v) = << >>

\* C22: get_definition returns a one-element list holding the result when
\* the result is an object, the result when it is a list, and an empty list
\* when it is null.
C22_DefinitionNormalized ==
    \A c \in Callers :
       ReturnedFrom(c, "definition") => IsNormalized(futures[call[c].fut].val, outcome[c].val)

\* get_definition has returned [location] for the result location.
C22_SingleLocationWrapped ==
    /\ ReturnedFrom("c1", "definition")
    /\ futures[call["c1"].fut].val = Location
    /\ outcome["c1"].val = ListOf(<<Location>>)

\* C23: get_declaration returns a one-element list holding the result when
\* the result is an object, the result when it is a list, and an empty list
\* when it is null.
C23_DeclarationNormalized ==
    \A c \in Callers :
       ReturnedFrom(c, "declaration") => IsNormalized(futures[call[c].fut].val, outcome[c].val)

\* C24: get_completions returns a list, the items of a result that is an
\* object with items, the result when it is a list, and an empty list
\* otherwise; the request is no longer in pending_requests.
C24_CompletionsAlwaysList ==
    \A c \in Callers :
       ReturnedFrom(c, "completion") =>
          \A r \in {futures[call[c].fut].val}, v \in {outcome[c].val} :
             /\ v.t = "list"
             /\ r.t = "dict" /\ Has(r, KItems) => v = Get(r, KItems)
             /\ r.t = "list" => v = r
             /\ ~(r.t = "dict" /\ Has(r, KItems)) /\ r.t # "list" => Items(v) = << >>
             /\ call[c].id \notin DOMAIN pending_requests

\* This step takes the tab tab_id off the tab list.
Closes(tab_id) == IndexById(tabs, tab_id) # 0 /\ IndexById(tabs', tab_id) = 0

\* The history without tab_id: the tabs that were active before and are
\* still open when tab_id is closed, oldest first.
StillOpen(tab_id) == SelectSeq(active_tab_history, LAMBDA tab : tab # tab_id)

\* C25: when close_tab closes the active tab and another tab is in the
\* history, the most recently active of those becomes the active tab, the
\* closed tab is off the list with its on_not_active set, and the new active
\* tab's on_not_active is not set.
C25_CloseActiveSwitchesToPrevious ==
    [][\A tab_id \in TabIds :
          Closes(tab_id) /\ active_tab_id = tab_id /\ StillOpen(tab_id) # << >>
             => /\ active_tab_id' = StillOpen(tab_id)[Len(StillOpen(tab_id))]
                /\ closed_tab'.id = tab_id /\ closed_tab'.on_not_active
                /\ IndexById(tabs', active_tab_id') # 0
                /\ ~tabs'[IndexById(tabs', active_tab_id')].on_not_active]_vars

\* The tab list without the tab tab_id.
StillOpenTabs(tab_id) == SelectSeq(tabs, LAMBDA tab : tab.id # tab_id)

\* C26: closing a tab that is not the active tab leaves active_tab_id and
\* the active tab as they were, keeps every other tab on the list and takes
\* only the closed tab off.
C26_CloseOtherKeepsActive ==
    [][\A tab_id \in TabIds :
          Closes(tab_id) /\ active_tab_id # tab_id
             => /\ active_tab_id' = active_tab_id
                /\ [i \in 1..Len(tabs') |-> tabs'[i].id]
                      = [i \in 1..Len(StillOpenTabs(tab_id)) |-> StillOpenTabs(tab_id)[i].id]
                /\ IndexById(tabs, active_tab_id) # 0
                      => tabs'[IndexById(tabs', active_tab_id)] = tabs[IndexById(tabs, active_tab_id)]]_vars

NoDuplicatePaths(ts) == \A i, j \in 1..Len(ts) : ts[i].path = ts[j].path => i = j

\* C27: open_file on a path that is open makes no tab and makes the tab with
\* that path the active one, and no step leaves two tabs with the same path.
C27_OpenFileNoDuplicate ==
    [][/\ NoDuplicatePaths(tabs')
       /\ \A file_path \in Paths :
             OpenFile(file_path) /\ IndexByPath(tabs, file_path) # 0
                => /\ [i \in 1..Len(tabs') |-> tabs'[i].id] = [i \in 1..Len(tabs) |-> tabs[i].id]
                   /\ active_tab_id' = tabs[IndexByPath(tabs, file_path)].id]_vars

\* The file of the second of two tabs was opened, then the file of the first
\* again: that tab is active, and nothing cleared its on_not_active.
C27_ExistingTabReopened ==
    /\ Len(tabs) = 2
    /\ active_tab_id = tabs[1].id
    /\ active_tab_history = <<tabs[1].id, tabs[2].id>>
    /\ tabs[1].on_not_active

\* The bytes of sent's frames i..Len(sent), and the bytes the reads so far
\* have delivered after the last frame they delivered whole.
RECURSIVE BytesFrom(_)
BytesFrom(i) == IF i > Len(sent) THEN << >> ELSE sent[i].bytes \o BytesFrom(i + 1)
IncompleteTail(c) == SubSeq(BytesFrom(1), FrameEnd(Complete(c)) + 1, c)

\* C28: a read that delivers the last bytes of two or more framed messages
\* has all of them dispatched, in order, in the same pass, and leaves in the
\* buffer only the bytes of a message that is not complete yet.
C28_PipelinedAllDispatched ==
    [][((\A i \in 1..Len(sent) : sent[i].framed) /\ Complete(Consumed') - Complete(Consumed) >= 2)
        => /\ Dispatched(log') = [j \in 1..(Complete(Consumed') - Complete(Consumed))
                                    |-> sent[Complete(Consumed) + j].payload]
           /\ buffer' = IncompleteTail(Consumed')]_vars

\* C29: against a child that answers shutdown with a result, is sent exit and
\* exits before the 5 s wait elapses, stop_server returns normally with no
\* signal sent: while stop_server waits for the exit, the shutdown future
\* holds a result, one exit notification has been written and no signal has
\* been sent, and the step on which the wait returns sends none, raises
\* nothing and clears the handle.
C29_GracefulStopUnsignalled ==
    [][/\ pc["stop"] = "exiting"
          => /\ futures[call["stop"].fut].state = "result"
             /\ Count("exit") = 1
             /\ signals = << >>
       /\ pc["stop"] = "exiting" /\ pc'["stop"] = "stopped" /\ outcome'["stop"] = NoOutcome
          => /\ ~running
             /\ signals' = << >>
             /\ process' = "None"]_vars

\* stop_server has returned after shutdown, exit and the child's exit, with
\* no signal sent.
C29_StoppedGracefully ==
    /\ pc["stop"] = "stopped"
    /\ outcome["stop"] = NoOutcome
    /\ call["stop"].fut # 0
    /\ futures[call["stop"].fut].state = "result"
    /\ Count("shutdown") = 1
    /\ Count("exit") = 1
    /\ signals = << >>
    /\ ~running

\* A message that has both an id and a method.
IsServerRequest(message) ==
    message.t = "dict" /\ Has(message, KId) /\ Has(message, KMethod)

\* C30: a request of the server resolves no future: a pass of the read loop
\* that dispatches nothing but messages with an id and a method leaves every
\* future as it was, also when the id is that of a request in flight.
C30_ServerRequestResolvesNothing ==
    [][(/\ stdout' # stdout
        /\ log' # << >>
        /\ \A i \in 1..Len(log') : IsServerRequest(log'[i].msg))
          => futures' = futures]_vars

\* C31: when the write of a request's frame fails, the error is raised to the
\* caller and pending_requests is left as it was before the call: the step of
\* a caller that ends in the write's ConnectionResetError changes no entry.
C31_FailedWriteLeavesNoEntry ==
    [][\A c \in Callers :
          (CallerStep(c) /\ outcome'[c] = Raised("ConnectionResetError"))
             => /\ pc'[c] = "idle"
                /\ pending_requests' = pending_requests]_vars

\* C32: when start_server has raised after the spawn, because initialize got
\* an error response or timed out, and nothing has been called since, the
\* client is as after a failed spawn: self.process is None, the child is not
\* alive and the read loop is not reading.
C32_FailedStartLeavesNothing ==
    (pc["start"] = "failed" /\ outcome["start"].kind \in {"LSPError", "TimeoutError"})
        => /\ process = "None"
           /\ ~running
           /\ reader # "reading"

\* Getter g is handed a client on this step.
Receives(g) == users'[g].pc = "returned" /\ users'[g] # users[g]

\* C33: while only get_lsp_client is called, every caller is handed the
\* client only when that client's start_server has returned, all callers are
\* handed the same instance, and at most one instance has spawned a process.
C33_SameStartedClient ==
    [][(\A r \in Restarters : users'[r] = NoUser)
          => /\ \A g \in Getters : Receives(g) => instances'[users'[g].got].start = "ready"
             /\ \A g, h \in Getters :
                   users'[g].pc = "returned" /\ users'[h].pc = "returned"
                      => users'[g].got = users'[h].got
             /\ Cardinality({i \in 1..Len(instances') :
                                instances'[i].process \/ instances'[i].stopped}) <= 1]_vars

\* No call of get_lsp_client or _restart_lsp_with_interpreter is under way.
Quiet == \A u \in Users : users[u].pc \in {"idle", "returned", "raised"}

\* C34: when every call of get_lsp_client and _restart_lsp_with_interpreter
\* has returned or raised, lsp_client is None or a client whose start_server
\* returned and which has its process, and no other instance has a process:
\* each earlier client was stopped.
C34_InstalledClientStarted ==
    Quiet =>
        /\ lsp_client # 0 =>
              instances[lsp_client].start = "ready" /\ instances[lsp_client].process
        /\ \A i \in 1..Len(instances) : i # lsp_client => ~instances[i].process

\* tab_id is the id of a tab in the tab list.
IsOpen(tab_id) == IndexById(tabs, tab_id) # 0

\* C35: after any sequence of open_file, set_active_tab, close_tab and
\* open_settings, active_tab_id is None or the id of an open tab, and every
\* id in active_tab_history is the id of an open tab.
C35_ActiveAndHistoryOpen ==
    /\ active_tab_id = "None" \/ IsOpen(active_tab_id)
    /\ \A i \in 1..Len(active_tab_history) : IsOpen(active_tab_history[i])

\* A tab that was in the history has been closed while the settings tab and
\* a file tab stay open, one of them active and the other in the history.
C35_ClosedTabLeftHistory ==
    /\ closed_tab.id \in TabIds
    /\ ~IsOpen(closed_tab.id)
    /\ IsOpen("settings")
    /\ Len(tabs) >= 2
    /\ active_tab_id # "None"
    /\ active_tab_history # << >>

\* C36: whenever a tab is active its on_not_active is not set: the event is
\* set only on tabs that are not the active one.
C36_ActiveTabWatched ==
    \A i \in 1..Len(tabs) : tabs[i].on_not_active => tabs[i].id # active_tab_id

=============================================================================
